---------------------------- MODULE Spec2Model ----------------------------
(***************************************************************************)
(* Structured columns of the m3 constraint-system builder                  *)
(* (crates/m3/src/builder/structured.rs).                                  *)
(*                                                                         *)
(* A binary tower field of level k has N_BITS = 2^k bits.  A field element *)
(* is the natural number below 2^N_BITS whose bit i is its coordinate in   *)
(* basis(i) over the 1-bit base field B1; field addition is bitwise XOR    *)
(* and field multiplication is the tower multiplication                    *)
(* X_k^2 = X_k * X_(k-1) + 1.                                              *)
(***************************************************************************)
EXTENDS Integers, Sequences, FiniteSets, TLC

VARIABLES
    spec,            \* the StructuredDynSize value the caller holds
    exprCalls,       \* the last two expr::<F>() calls, latest first
    ret,             \* the return value of the latest call, when it was not expr
    table,           \* the table witness being filled (tests)
    expected_col,    \* the committed reference column, row -> value
    structured_col,  \* the structured / fixed column, row -> value
    validated        \* row -> the column expression evaluated at that row

vars == <<spec, exprCalls, ret, table, expected_col, structured_col, validated>>

(***************************** bounds **************************************)

\* Tower levels 0..MaxTowerLevel are the field types F of the model.
MaxTowerLevel == 3

\* max_size_log and n_vars range over 0..MaxSizeLog.
MaxSizeLog == 9

\* Row-count exponents of the table filled segment by segment.
MaxTableLog == 3

(************************* field arithmetic ********************************)

Pow2(n) == 2 ^ n

FieldTypes == 0..MaxTowerLevel

N_BITS(F) == Pow2(F)

\* F::new(x as uN): the conversion keeps the low N_BITS bits.
FieldNew(F, x) == x % Pow2(N_BITS(F))

\* Coordinate i of a field element over B1.
Bit(x, i) == (x \div Pow2(i)) % 2

RECURSIVE BitXor(_, _)
BitXor(a, b) ==
    IF a = 0 THEN b
    ELSE IF b = 0 THEN a
    ELSE (((a % 2) + (b % 2)) % 2) + (2 * BitXor(a \div 2, b \div 2))

RECURSIVE BitAnd(_, _)
BitAnd(a, b) ==
    IF a = 0 \/ b = 0 THEN 0
    ELSE ((a % 2) * (b % 2)) + (2 * BitAnd(a \div 2, b \div 2))

RECURSIVE BitOr(_, _)
BitOr(a, b) ==
    IF a = 0 THEN b
    ELSE IF b = 0 THEN a
    ELSE (IF (a % 2) + (b % 2) > 0 THEN 1 ELSE 0) + (2 * BitOr(a \div 2, b \div 2))

FieldAdd(a, b) == BitXor(a, b)

\* Multiplication in the tower field of level k.
RECURSIVE TowerMul(_, _, _)
TowerMul(k, a, b) ==
    IF a = 0 \/ b = 0 THEN 0
    ELSE IF a = 1 THEN b
    ELSE IF b = 1 THEN a
    ELSE LET h     == Pow2(k - 1)
             a0    == a % Pow2(h)
             a1    == a \div Pow2(h)
             b0    == b % Pow2(h)
             b1    == b \div Pow2(h)
             alpha == IF k = 1 THEN 1 ELSE Pow2(h \div 2)
             z0    == TowerMul(k - 1, a0, b0)
             z2    == TowerMul(k - 1, a1, b1)
             z1    == BitXor(BitXor(TowerMul(k - 1, BitXor(a0, a1), BitXor(b0, b1)), z0), z2)
             z2a   == TowerMul(k - 1, z2, alpha)
         IN  BitXor(z0, z2) + (Pow2(h) * BitXor(z1, z2a))

FieldMul(F, a, b) == TowerMul(F, a, b)

\* <F as ExtensionField<B1>>::basis(i) is defined for i < N_BITS only.
BasisDefined(F, i) == i < N_BITS(F)

Basis(F, i) == FieldNew(F, Pow2(i))

(***************************** results *************************************)

Ok(v) == [ok |-> TRUE, val |-> v]

Err(e) == [ok |-> FALSE, err |-> e]

\* A panic of the callee (basis() out of range).
Panicked == [ok |-> FALSE, err |-> "panic"]

(*************************** expressions ***********************************)

Var(i) == [op |-> "Var", i |-> i]

Const(c) == [op |-> "Const", c |-> c]

Add(l, r) == [op |-> "Add", l |-> l, r |-> r]

Mul(l, r) == [op |-> "Mul", l |-> l, r |-> r]

Zero == Const(0)

\* iter.sum::<ArithExpr<F>>(): the terms added left to right, zero when none.
RECURSIVE SumFrom(_, _, _)
SumFrom(acc, ts, k) ==
    IF k > Len(ts) THEN acc ELSE SumFrom(Add(acc, ts[k]), ts, k + 1)

Sum(ts) == IF ts = <<>> THEN Zero ELSE SumFrom(ts[1], ts, 2)

\* The summands of an expression, left to right.
RECURSIVE SumTerms(_)
SumTerms(e) ==
    IF e = Zero THEN <<>>
    ELSE IF e.op = "Add" THEN SumTerms(e.l) \o SumTerms(e.r)
    ELSE <<e>>

Max(a, b) == IF a > b THEN a ELSE b

\* Number of variables of the circuit: one more than the largest index.
RECURSIVE NVars(_)
NVars(e) ==
    CASE e.op = "Var"   -> e.i + 1
      [] e.op = "Const" -> 0
      [] OTHER          -> Max(NVars(e.l), NVars(e.r))

\* Degree of variable v in the expression.
RECURSIVE Degree(_, _)
Degree(e, v) ==
    CASE e.op = "Var"   -> IF e.i = v THEN 1 ELSE 0
      [] e.op = "Const" -> 0
      [] e.op = "Add"   -> Max(Degree(e.l, v), Degree(e.r, v))
      [] OTHER          -> Degree(e.l, v) + Degree(e.r, v)

RECURSIVE Eval(_, _, _)
Eval(F, e, q) ==
    CASE e.op = "Var"   -> q[e.i + 1]
      [] e.op = "Const" -> e.c
      [] e.op = "Add"   -> FieldAdd(Eval(F, e.l, q), Eval(F, e.r, q))
      [] OTHER          -> FieldMul(F, Eval(F, e.l, q), Eval(F, e.r, q))

\* ArithCircuitPoly::evaluate: the query must have one value per variable.
Evaluate(F, e, q) ==
    IF Len(q) # NVars(e) THEN Err("IncorrectQuerySize") ELSE Ok(Eval(F, e, q))

\* decompose_index_to_hypercube_point(n_vars, index): bit j of index as ONE / ZERO.
decompose_index_to_hypercube_point(n_vars, index) ==
    [j \in 1..n_vars |-> Bit(index, j - 1)]

(********************** StructuredDynSize and its methods ******************)

\* enum StructuredDynSize { Incrementing { max_size_log: usize } }
StructuredDynSize ==
    [variant : {"Incrementing"}, max_size_log : 0..MaxSizeLog]

\* Mutant: the term takes the basis element of the next coordinate.
incrementing_term_next_basis(F, i) ==
    Mul(Var(i), Const(Basis(F, (i + 1) % N_BITS(F))))

\* Mutant: the variable is multiplied in twice.
incrementing_term_squared(F, i) ==
    Mul(Mul(Var(i), Var(i)), Const(Basis(F, i)))

\* Term i of the incrementing expression.
incrementing_term(F, i) == Mul(Var(i), Const(Basis(F, i)))

\* Mutant: the width check rejects max_log_size = N_BITS as well.
incrementing_expr_strict(F, max_log_size) ==
    IF max_log_size >= N_BITS(F)
    THEN [ret |-> Err("MaxLogSizeTooLarge"), basis_calls |-> <<>>]
    ELSE LET calls == [j \in 1..max_log_size |-> j - 1]
             terms == [j \in 1..max_log_size |-> incrementing_term(F, calls[j])]
         IN  [ret |-> Ok(Sum(terms)), basis_calls |-> calls]

\* Mutant: the range is 0..=max_log_size, one term too many.
incrementing_expr_inclusive(F, max_log_size) ==
    IF max_log_size > N_BITS(F)
    THEN [ret |-> Err("MaxLogSizeTooLarge"), basis_calls |-> <<>>]
    ELSE LET calls == [j \in 1..(max_log_size + 1) |-> j - 1]
             terms == [j \in 1..(max_log_size + 1) |-> incrementing_term(F, calls[j] % N_BITS(F))]
         IN  [ret |-> Ok(Sum(terms)), basis_calls |-> [j \in 1..max_log_size |-> j - 1]]

\* Mutant: the terms are built first and the width is checked afterwards.
incrementing_expr_late_check(F, max_log_size) ==
    LET calls == [j \in 1..max_log_size |-> j - 1]
        terms == [j \in 1..max_log_size |-> incrementing_term(F, calls[j])]
    IN  IF max_log_size > N_BITS(F)
        THEN [ret |-> Err("MaxLogSizeTooLarge"), basis_calls |-> calls]
        ELSE [ret |-> Ok(Sum(terms)), basis_calls |-> calls]

\* Mutant: the size of the latest check_nvars call leaks into the next synthesis.
incrementing_expr_stateful(F, max_log_size) ==
    LET m     == IF ret.call = "check_nvars" /\ ret.n_vars < max_log_size
                 THEN ret.n_vars ELSE max_log_size
        calls == [j \in 1..m |-> j - 1]
        terms == [j \in 1..m |-> incrementing_term(F, calls[j])]
    IN  IF max_log_size > N_BITS(F)
        THEN [ret |-> Err("MaxLogSizeTooLarge"), basis_calls |-> <<>>]
        ELSE [ret |-> Ok(Sum(terms)), basis_calls |-> calls]

\* incrementing_expr::<F>(max_log_size): the value returned, with the indices
\* passed to basis() on the way, in call order.
incrementing_expr(F, max_log_size) ==
    IF max_log_size > N_BITS(F)
    THEN [ret |-> Err("MaxLogSizeTooLarge"), basis_calls |-> <<>>]
    ELSE LET calls == [j \in 1..max_log_size |-> j - 1]
             terms == [j \in 1..max_log_size |-> incrementing_term(F, calls[j])]
         IN  IF \A j \in 1..max_log_size : BasisDefined(F, calls[j])
             THEN [ret |-> Ok(Sum(terms)), basis_calls |-> calls]
             ELSE [ret |-> Panicked, basis_calls |-> calls]

\* StructuredDynSize::expr::<F>(self)
expr(F, self) ==
    CASE self.variant = "Incrementing" -> incrementing_expr(F, self.max_size_log)

\* StructuredDynSize::max_size_log(&self)
max_size_log(self) ==
    CASE self.variant = "Incrementing" -> self.max_size_log

\* Mutant: a table exactly as large as max_size_log is rejected.
check_nvars_strict(self, n_vars) ==
    IF n_vars >= max_size_log(self)
    THEN Err("MaxLogSizeTooLarge")
    ELSE Ok("unit")

\* StructuredDynSize::check_nvars(&self, n_vars)
check_nvars(self, n_vars) ==
    IF n_vars > max_size_log(self)
    THEN Err("MaxLogSizeTooLarge")
    ELSE Ok("unit")

(************************ calls on a declared spec *************************)

NoCall == [call |-> "none"]

NoTable == [state |-> "none"]

EmptyCol == <<>>

\* The caller holds a spec; nothing has been called yet.
Init ==
    /\ spec \in StructuredDynSize
    /\ exprCalls = <<>>
    /\ ret = NoCall
    /\ table = NoTable
    /\ expected_col = EmptyCol
    /\ structured_col = EmptyCol
    /\ validated = EmptyCol

\* let r = spec.expr::<F>();
CallExpr(F) ==
    /\ exprCalls' = <<[field |-> F, spec |-> spec, out |-> expr(F, spec)]>>
                       \o (IF exprCalls = <<>> THEN <<>> ELSE <<exprCalls[1]>>)
    /\ ret' = NoCall
    /\ UNCHANGED <<spec, table, expected_col, structured_col, validated>>

\* let r = spec.check_nvars(n_vars);
CallCheckNvars(n_vars) ==
    /\ ret' = [call |-> "check_nvars", n_vars |-> n_vars, ret |-> check_nvars(spec, n_vars)]
    /\ UNCHANGED <<spec, exprCalls, table, expected_col, structured_col, validated>>

\* let m = spec.max_size_log();
CallMaxSizeLog ==
    /\ ret' = [call |-> "max_size_log", ret |-> max_size_log(spec)]
    /\ UNCHANGED <<spec, exprCalls, table, expected_col, structured_col, validated>>

\* test_incrementing_expr, one iteration of `for i in 0..1 << m`: the
\* expression of the latest successful expr call is evaluated at the hypercube
\* point of the next row index and the value is kept for the assert_eq.
NextIndex == IF ret.call = "evaluate" THEN ret.index + 1 ELSE 0

CallEvaluate ==
    /\ exprCalls # <<>>
    /\ exprCalls[1].out.ret.ok
    /\ NextIndex < Pow2(max_size_log(exprCalls[1].spec))
    /\ LET F    == exprCalls[1].field
           e    == exprCalls[1].out.ret.val
           bits == decompose_index_to_hypercube_point(max_size_log(exprCalls[1].spec), NextIndex)
       IN  ret' = [call |-> "evaluate", index |-> NextIndex, ret |-> Evaluate(F, e, bits)]
    /\ UNCHANGED <<spec, exprCalls, table, expected_col, structured_col, validated>>

Next ==
    \/ \E F \in FieldTypes : CallExpr(F)
    \/ \E n_vars \in 0..(MaxSizeLog + 1) : CallCheckNvars(n_vars)
    \/ CallMaxSizeLog
    \/ CallEvaluate

Spec == Init /\ [][Next]_vars



(************** test_fill_incrementing: a table filled in segments *********)

\* Rows of segment `index` of 2^log_size rows: witness.index() << log_size onwards.
SegmentRows(index, log_size) ==
    (index * Pow2(log_size))..((index + 1) * Pow2(log_size) - 1)

\* The events slice handed to the filler for a segment: the chunk of
\* (0..1 << n_vars).collect() at the segment's position.
SegmentEvents(events, index, log_size) ==
    [i \in 0..(Pow2(log_size) - 1) |-> events[index * Pow2(log_size) + i + 1]]

\* gadgets::structured::fill_incrementing_b32 for the column's field: local
\* row i of the segment gets F::new(start_index + i).
fill_incrementing(F, index, log_size) ==
    LET start_index == index * Pow2(log_size)
    IN  [i \in 0..(Pow2(log_size) - 1) |-> FieldNew(F, start_index + i)]

\* The closure's loop: *col_i = F::new(i) for each event i of the segment.
fill_expected(F, events) ==
    [i \in DOMAIN events |-> FieldNew(F, events[i])]

\* col extended by the values of one segment.
WriteSegment(col, index, log_size, values) ==
    [r \in (DOMAIN col) \cup SegmentRows(index, log_size) |->
        IF r \in SegmentRows(index, log_size)
        THEN values[r - index * Pow2(log_size)]
        ELSE col[r]]

\* table.add_structured::<F>("incrementing", spec): the column is declared.
InitFill ==
    /\ spec \in StructuredDynSize
    /\ exprCalls = <<>>
    /\ ret = NoCall
    /\ table \in [state : {"declared"}, field : FieldTypes]
    /\ expected_col = EmptyCol
    /\ structured_col = EmptyCol
    /\ validated = EmptyCol

\* witness.init_table(id, 1 << n_vars) and the choice of the segment size.
InitTable(n_vars, log_size) ==
    /\ table.state = "declared"
    /\ log_size <= n_vars
    /\ table' = [state |-> "filling", field |-> table.field, n_vars |-> n_vars,
                 log_size |-> log_size, index |-> 0]
    /\ UNCHANGED <<spec, exprCalls, ret, expected_col, structured_col, validated>>

\* fill_sequential_with_segment_size, one segment: the closure fills the
\* reference column from the events and the structured column by the gadget.
FillSegment ==
    /\ table.state = "filling"
    /\ table.index < Pow2(table.n_vars - table.log_size)
    /\ LET events == [j \in 1..Pow2(table.n_vars) |-> j - 1]
           chunk  == SegmentEvents(events, table.index, table.log_size)
       IN  /\ expected_col' = WriteSegment(expected_col, table.index, table.log_size,
                                  fill_expected(table.field, chunk))
           /\ structured_col' = WriteSegment(structured_col, table.index, table.log_size,
                                    fill_incrementing(table.field, table.index, table.log_size))
    /\ table' = [table EXCEPT !.index = table.index + 1]
    /\ UNCHANGED <<spec, exprCalls, ret, validated>>

\* validate_system_witness, the table-size check of the structured column.
ValidateCheckNvars ==
    /\ table.state = "filling"
    /\ table.index = Pow2(table.n_vars - table.log_size)
    /\ ret' = [call |-> "check_nvars", n_vars |-> table.n_vars,
               ret |-> check_nvars(spec, table.n_vars)]
    /\ table' = [table EXCEPT !.state =
                    IF check_nvars(spec, table.n_vars).ok THEN "checked" ELSE "rejected"]
    /\ UNCHANGED <<spec, exprCalls, expected_col, structured_col, validated>>

\* validate_system_witness, the synthesis of the column's expression.
ValidateExpr ==
    /\ table.state = "checked"
    /\ exprCalls' = <<[field |-> table.field, spec |-> spec, out |-> expr(table.field, spec)]>>
    /\ table' = [table EXCEPT !.state =
                    IF expr(table.field, spec).ret.ok THEN "validating" ELSE "rejected"]
    /\ UNCHANGED <<spec, ret, expected_col, structured_col, validated>>

\* validate_system_witness, one row: the expression evaluated at the row's
\* hypercube point, the variables from n_vars on set to zero.
ValidateRow ==
    /\ table.state = "validating"
    /\ \E r \in DOMAIN structured_col :
        /\ r \notin DOMAIN validated
        /\ \A q \in DOMAIN structured_col : q < r => q \in DOMAIN validated
        /\ LET e    == exprCalls[1].out.ret.val
               bits == decompose_index_to_hypercube_point(max_size_log(spec), r)
           IN  validated' = [q \in (DOMAIN validated) \cup {r} |->
                                IF q = r THEN Evaluate(table.field, e, bits)
                                ELSE validated[q]]
    /\ UNCHANGED <<spec, exprCalls, ret, table, expected_col, structured_col>>

NextFill ==
    \/ \E n_vars \in 0..MaxTableLog : \E log_size \in 0..MaxTableLog :
           InitTable(n_vars, log_size)
    \/ FillSegment
    \/ ValidateCheckNvars
    \/ ValidateExpr
    \/ ValidateRow

SpecFill == InitFill /\ [][NextFill]_vars


(************ test_fill_bitwise_and: a fixed column a | b | a & b **********)

\* let log_size = 8;
log_size == 8

\* B16, the field of the columns: tower level 4.  The expression is built over
\* B128; its constants basis(0..11) and all its values on the hypercube lie in
\* the B16 subfield, whose elements keep their bits in B128.
B16 == 4

\* Mutant: the index bits start at basis(3), overlapping the AND result.
lookup_index_term_low(i) == Mul(Var(i), Const(Basis(B16, i + 3)))

\* ArithExpr::Var(i) * ArithExpr::Const(basis(i + 4))
lookup_index_term(i) == Mul(Var(i), Const(Basis(B16, i + 4)))

\* ArithExpr::Var(i) * ArithExpr::Var(4 + i) * ArithExpr::Const(basis(i))
and_res_term(i) == Mul(Mul(Var(i), Var(4 + i)), Const(Basis(B16, i)))

\* let expr = lookup_index + and_res;
bitwise_and_expr ==
    LET lookup_index == Sum([j \in 1..log_size |-> lookup_index_term(j - 1)])
        and_res      == Sum([j \in 1..4 |-> and_res_term(j - 1)])
    IN  Add(lookup_index, and_res)

\* The closure's loop body for event i: B16::new(((i as u16) << 4) | z).
bitwise_and_row(i) ==
    LET x == BitAnd(i \div 16, 15) % 65536
        y == BitAnd(i, 15) % 65536
        z == BitAnd(x, y)
    IN  FieldNew(B16, BitOr(((i % 65536) * 16) % 65536, z))

\* The table of fixed size 2^log_size, before the first row is filled.
InitAnd ==
    /\ spec = [variant |-> "none"]
    /\ exprCalls = <<>>
    /\ ret = NoCall
    /\ table = [state |-> "filling", field |-> B16, n_vars |-> log_size,
                log_size |-> log_size, index |-> 0]
    /\ expected_col = EmptyCol
    /\ structured_col = EmptyCol
    /\ validated = EmptyCol

\* fill_table_sequential, one iteration of the izip! loop: both columns of
\* the next row get the same value.
AndFillRow ==
    /\ table.state = "filling"
    /\ LET i == Cardinality(DOMAIN expected_col)
       IN  /\ i < Pow2(table.n_vars)
           /\ expected_col' = [r \in 0..i |->
                                  IF r = i THEN bitwise_and_row(i) ELSE expected_col[r]]
           /\ structured_col' = [r \in 0..i |->
                                    IF r = i THEN bitwise_and_row(i) ELSE structured_col[r]]
    /\ UNCHANGED <<spec, exprCalls, ret, table, validated>>

\* validate_system_witness, run once the table is filled, one row of the fixed
\* column: its expression evaluated at the hypercube point of the row.
AndValidateRow ==
    /\ table.state = "filling"
    /\ Cardinality(DOMAIN structured_col) = Pow2(table.n_vars)
    /\ LET r == Cardinality(DOMAIN validated)
       IN  /\ r \in DOMAIN structured_col
           /\ validated' = [q \in 0..r |->
                               IF q = r
                               THEN Evaluate(table.field, bitwise_and_expr,
                                        decompose_index_to_hypercube_point(table.n_vars, r))
                               ELSE validated[q]]
    /\ UNCHANGED <<spec, exprCalls, ret, table, expected_col, structured_col>>

NextAnd ==
    \/ AndFillRow
    \/ AndValidateRow

SpecAnd == InitAnd /\ [][NextAnd]_vars

(******************************* claims ************************************)

\* The expr calls the state remembers.
Calls == {exprCalls[k] : k \in DOMAIN exprCalls}

\* N_BITS of the field of a remembered expr call, and its max_size_log.
CallBits(c) == N_BITS(c.field)

CallLog(c) == max_size_log(c.spec)

\* C1: for every field width N, every m <= N and every row index r below 2^m,
\* the incrementing expression evaluated at the bits of r (bit i -> variable i)
\* is the field element whose coordinate in basis(i) is bit i of r, that is
\* F::new(r).
C1_EvaluateYieldsRowIndex ==
    ret.call = "evaluate" =>
        /\ ret.ret.ok
        /\ ret.ret.val = FieldNew(exprCalls[1].field, ret.index)
        /\ \A i \in 0..(CallBits(exprCalls[1]) - 1) :
               Bit(ret.ret.val, i) = Bit(ret.index, i)

\* A 5-variable expression over the 8-bit field evaluated at row 21.
C1_Witness ==
    /\ ret.call = "evaluate"
    /\ ret.index = 21
    /\ CallLog(exprCalls[1]) = 5
    /\ exprCalls[1].field = 3

\* C2: expr / incrementing_expr over a field of N bits fails, with
\* MaxLogSizeTooLarge, exactly when max_size_log > N; for max_size_log in 0..N
\* it returns an expression and no error (never Math), and for max_size_log = 0
\* the expression is the empty sum, zero at every assignment.
C2_ExprFailsIffTooWide ==
    \A c \in Calls :
        /\ ~c.out.ret.ok <=> CallLog(c) > CallBits(c)
        /\ ~c.out.ret.ok => c.out.ret = Err("MaxLogSizeTooLarge")
        /\ c.out.ret.ok => DOMAIN c.out.ret = {"ok", "val"}
        /\ (c.out.ret.ok /\ CallLog(c) = 0) =>
               /\ SumTerms(c.out.ret.val) = <<>>
               /\ Evaluate(c.field, c.out.ret.val, <<>>) = Ok(0)
               /\ \A q \in [1..2 -> {0, 1}] : Eval(c.field, c.out.ret.val, q) = 0

\* The same spec fails for a 1-bit field and succeeds at max_size_log = N_BITS.
C2_Witness ==
    /\ Len(exprCalls) = 2
    /\ ~exprCalls[1].out.ret.ok
    /\ exprCalls[2].out.ret.ok
    /\ CallLog(exprCalls[2]) = CallBits(exprCalls[2])

\* C3: check_nvars(n_vars) succeeds exactly when n_vars <= max_size_log (it
\* succeeds at max_size_log and fails at max_size_log + 1), whatever field
\* types the spec has been or will be used with.
C3_CheckNvarsIffFits ==
    ret.call = "check_nvars" =>
        /\ ret.ret.ok <=> ret.n_vars <= spec.max_size_log
        /\ ret.n_vars = spec.max_size_log => ret.ret = Ok("unit")
        /\ ret.n_vars = spec.max_size_log + 1 => ~ret.ret.ok

\* check_nvars(max_size_log + 1) fails after expr was called for two fields.
C3_Witness ==
    /\ ret.call = "check_nvars"
    /\ ret.n_vars = spec.max_size_log + 1
    /\ ~ret.ret.ok
    /\ Len(exprCalls) = 2
    /\ exprCalls[1].field # exprCalls[2].field

\* C4: whenever check_nvars fails, the error is the table-size error
\* (Error::TableSizeTooLarge), a variant other than the field-width error
\* (Error::MaxLogSizeTooLarge) of expression synthesis.
C4_CheckNvarsErrorIsTableSize ==
    (ret.call = "check_nvars" /\ ~ret.ret.ok) =>
        /\ ret.ret = Err("TableSizeTooLarge")
        /\ ret.ret # Err("MaxLogSizeTooLarge")

\* Two remembered expr calls had the same variant, max_size_log and field type.
SameInputs(c, d) == c.field = d.field /\ c.spec = d.spec

\* The two remembered expr calls agree whenever their inputs do.
C7_Deterministic ==
    (Len(exprCalls) = 2 /\ SameInputs(exprCalls[1], exprCalls[2])) =>
        /\ exprCalls[1].out.ret.ok = exprCalls[2].out.ret.ok
        /\ ~exprCalls[1].out.ret.ok => exprCalls[1].out.ret = exprCalls[2].out.ret
        /\ exprCalls[1].out.ret.ok =>
               /\ NVars(exprCalls[1].out.ret.val) = NVars(exprCalls[2].out.ret.val)
               /\ ret.call = "evaluate" =>
                      ret.ret = Evaluate(exprCalls[2].field, exprCalls[2].out.ret.val,
                                    decompose_index_to_hypercube_point(
                                        CallLog(exprCalls[2]), ret.index))

C8_SumOfBasisTerms ==
    \A c \in Calls : c.out.ret.ok =>
        LET e  == c.out.ret.val
            ts == SumTerms(e)
            m  == CallLog(c)
        IN  /\ Len(ts) = m
            /\ \A i \in 0..(m - 1) : ts[i + 1] = Mul(Var(i), Const(Basis(c.field, i)))
            /\ NVars(e) = m
            /\ \A v \in 0..(MaxSizeLog + 1) : Degree(e, v) = IF v < m THEN 1 ELSE 0
            /\ \A v \in 0..(m - 1) :
                   Cardinality({j \in 1..Len(ts) : Degree(ts[j], v) > 0}) = 1

\* A 4-term expression over the 4-bit field.
C8_Witness ==
    /\ exprCalls # <<>>
    /\ exprCalls[1].out.ret.ok
    /\ CallLog(exprCalls[1]) = 4
    /\ exprCalls[1].field = 2

\* C9: incrementing_expr checks max_log_size against N_BITS before it builds
\* anything: basis(i) is requested only for i < N_BITS, and when
\* max_log_size > N_BITS the error comes back with no basis element requested
\* and no expression, partial or whole.
C9_CheckBeforeBuild ==
    \A c \in Calls :
        /\ \A j \in DOMAIN c.out.basis_calls : c.out.basis_calls[j] < CallBits(c)
        /\ c.out.ret # Panicked
        /\ CallLog(c) > CallBits(c) =>
               /\ c.out.basis_calls = <<>>
               /\ ~c.out.ret.ok
               /\ "val" \notin DOMAIN c.out.ret

\* max_size_log = 9 over the 8-bit field.
C9_Witness ==
    /\ exprCalls # <<>>
    /\ CallLog(exprCalls[1]) = 9
    /\ exprCalls[1].field = 3
    /\ ~exprCalls[1].out.ret.ok


\* The summands of the variables from n on.
HighTerms(e, n) == SubSeq(SumTerms(e), n + 1, Len(SumTerms(e)))

\* C5: for max_size_log = m <= N_BITS and a table of 2^n rows with n <= m,
\* check_nvars(n) succeeds, synthesis succeeds with an m-term sum, and at every
\* row r below 2^n, with the variables n..m-1 set to zero, the expression
\* evaluates to F::new(r): the m - n high-order terms contribute zero.
C5_UnusedHighTermsVanish ==
    /\ (table.state = "rejected") =>
           \/ table.n_vars > max_size_log(spec)
           \/ max_size_log(spec) > N_BITS(table.field)
    /\ (table.state = "validating") =>
           LET m == max_size_log(spec)
               e == exprCalls[1].out.ret.val
           IN  /\ ret.ret = Ok("unit")
               /\ Len(SumTerms(e)) = m
               /\ \A r \in DOMAIN validated :
                      /\ validated[r] = Ok(FieldNew(table.field, r))
                      /\ \A i \in 0..(N_BITS(table.field) - 1) :
                             Bit(validated[r].val, i) = Bit(r, i)
                      /\ Eval(table.field, Sum(HighTerms(e, table.n_vars)),
                             decompose_index_to_hypercube_point(m, r)) = 0

\* An 8-term expression over the 8-bit field validated on all 8 rows of a table.
C5_Witness ==
    /\ table.state = "validating"
    /\ max_size_log(spec) = 8
    /\ table.field = 3
    /\ table.n_vars = 3
    /\ DOMAIN validated = 0..7

\* C6: filling the column segment by segment gives every row the value a
\* single pass over the whole range gives it, which is the reference value and
\* the expression evaluated at the row's global index, wherever the segment
\* boundaries fall.
C6_ChunkInvariance ==
    (table.state # "declared") =>
        LET one_pass == fill_incrementing(table.field, 0, table.n_vars)
        IN  \A r \in DOMAIN structured_col :
                /\ structured_col[r] = one_pass[r]
                /\ expected_col[r] = structured_col[r]
                /\ r \in DOMAIN validated => validated[r] = Ok(structured_col[r])

\* 8 rows filled in 4 segments of 2 rows and validated.
C6_Witness ==
    /\ table.state = "validating"
    /\ table.n_vars = 3
    /\ table.log_size = 1
    /\ DOMAIN validated = 0..7

\* C10: the fixed-column expression of test_fill_bitwise_and, evaluated at the
\* bits of row r below 256, is the 16-bit value (r << 4) | ((r >> 4) & (r & 15)).
C10_BitwiseAndExpr ==
    \A r \in DOMAIN validated :
        /\ validated[r] = Ok(structured_col[r])
        /\ validated[r].val = (16 * r) + BitAnd(r \div 16, r % 16)
        /\ expected_col[r] = structured_col[r]

\* Row 0xB7: 0xB7 << 4 | (0xB & 0x7) = 0xB73.
C10_Witness ==
    /\ 183 \in DOMAIN validated
    /\ validated[183] = Ok(2931)

=============================================================================
